---- MODULE Spec2Model ----
(***************************************************************************)
(* The epoch loop of train_GTSRB.py: main() with adjust_learning_rate,     *)
(* train, eval_train, eval_test and the checkpoint step, as one           *)
(* sequential state machine.  One action per statement group of the        *)
(* source; pc is the position of the single control thread.                *)
(*                                                                         *)
(* Abstractions.  The network is an opaque deterministic function of the   *)
(* parameters and the input image (Predict).  The parameters are           *)
(* identified with the number of optimizer updates that produced them.     *)
(* The learning rate is kept in thousandths of args.lr, so that the        *)
(* factors 0.1, 0.01 and 0.001 are exact.  A sample is its index in the    *)
(* dataset; RandomRotation draws one of the Rotations for each fetch.      *)
(***************************************************************************)
EXTENDS Integers, Sequences, FiniteSets

\* ------------------------------------------------------------- bounds
MaxEpochs == 16
MaxPassEpochs == 2
MaxSaveFreq == 2
MaxLogInterval == 2
MaxTrain == 2
MaxTest == 3
MaxParams == 2
MaxBatch == 2

\* -------------------------------------------------- program constants
\* model.fc = nn.Linear(2048, 43)
NumClasses == 43
\* args.lr, in thousandths of args.lr
LrBase == 1000

\* RandomRotation(15): rotation 0 leaves the image as stored, 1 turns it.
Rotations == {0, 1}

VARIABLES
    args,            \* the parsed command line (module level, line 38)
    cuda_available,  \* torch.cuda.is_available()
    trainset,        \* len(trainset): samples are 1..trainset
    testset,         \* len(testset)
    model_device,    \* where model.to(device) put the model
    pc,              \* position of the control thread
    epoch,           \* main's loop variable
    error,           \* the exception that left main, or "none"
    lr,              \* optimizer.param_groups[*]['lr']
    params,          \* model parameters (number of updates applied)
    momentum,        \* optimizer momentum buffers (number of steps taken)
    grad,            \* the batches accumulated in the parameters' .grad
    training,        \* model.training
    order,           \* the sample order of the loader iteration under way
    batch_idx,       \* index of the current batch in that iteration
    data,            \* the current batch: a sequence of <<sample, rotation>>
    data_device,     \* where data.to(device) put the current batch
    loss,            \* train's loss of the current batch: <<sum, count>>
    consumed,        \* the batches of samples this iteration has delivered
    loss_sum,        \* train_loss / test_loss accumulator of the evaluator
    correct,         \* correct accumulator of the evaluator
    scored,          \* the <<sample, rotation>> the evaluator has scored
    returned,        \* the (loss, accuracy) the last evaluator call returned
    console,         \* the progress records printed by train
    writes,          \* the files torch.save has written, in order
    visited,         \* the epochs the loop has entered, in order
    updates,         \* the optimizer steps of the train call under way
    runs             \* driver: what each evaluator call saw and returned

vars == <<args, cuda_available, trainset, testset, model_device, pc, epoch,
          error, lr, params, momentum, grad, training, order, batch_idx, data,
          data_device, loss, consumed, loss_sum, correct, scored, returned,
          console, writes, visited, updates, runs>>

config == <<args, cuda_available, trainset, testset, model_device>>
optimizer == <<lr, momentum>>
loader == <<order, batch_idx, data, data_device, consumed>>
accum == <<loss_sum, correct, scored>>
history == <<console, writes, visited, updates, runs>>

\* ------------------------------------------------------------ helpers
Min(a, b) == IF a < b THEN a ELSE b

RECURSIVE SumSeq(_)
SumSeq(s) == IF s = <<>> THEN 0 ELSE Head(s) + SumSeq(Tail(s))

RECURSIVE Flatten(_)
Flatten(ss) == IF ss = <<>> THEN <<>> ELSE Head(ss) \o Flatten(Tail(ss))

Range(s) == {s[i] : i \in DOMAIN s}

\* use_cuda = not args.no_cuda and torch.cuda.is_available()
use_cuda_NoAvailabilityTest(a, avail) == ~a.no_cuda
use_cuda(a, avail) == ~a.no_cuda /\ avail

\* device = torch.device("cuda" if use_cuda else "cpu")
device(a, avail) == IF use_cuda(a, avail) THEN "cuda" ELSE "cpu"

\* The label of a sample, and the class the network gives it: its argmax
\* output.max(1)[1] under parameters p for sample s turned by r.
Label(s) == s % NumClasses
Predict(p, s, r) ==
    IF (p + s + r) % 3 = 0 THEN (Label(s) + 1) % NumClasses ELSE Label(s)

\* Per-sample cross entropy, in integer units: lower when the class is right.
CrossEntropy(p, s, r) == IF Predict(p, s, r) = Label(s) THEN 1 ELSE 3

\* ------------------------------------------------------- data loaders
\* DataLoader(dataset, batch_size, shuffle): a new iteration fixes the
\* sample order (a random permutation when shuffle=True, the stored order
\* otherwise); drop_last is False, so the last batch may be smaller.
Permutations(n) ==
    {f \in [1..n -> 1..n] : \A i, j \in 1..n : f[i] = f[j] => i = j}

SampleOrders(n, shuffle) ==
    IF shuffle THEN Permutations(n) ELSE {[i \in 1..n |-> i]}

\* len(loader): the number of batches of n samples in batches of bs.
NumBatches_DropLast(n, bs) == n \div bs
NumBatches(n, bs) == (n + bs - 1) \div bs

\* Samples of batch k (0-based) of an iteration over `ord` in batches of bs.
BatchSamples(ord, bs, k) ==
    SubSeq(ord, k * bs + 1, Min((k + 1) * bs, Len(ord)))

\* transform_train draws a rotation for every sample it fetches;
\* transform_test has no random part.
Augmentations(split, n) ==
    IF split = "train" THEN [1..n -> Rotations] ELSE {[i \in 1..n |-> 0]}

LoaderSize(split) == IF split = "train" THEN trainset ELSE testset
LoaderBatch(split) ==
    IF split = "train" THEN args.batch_size ELSE args.test_batch_size

\* The batches a loader can deliver as batch k of the iteration under way:
\* the samples in order, each with the rotation its fetch drew.
Fetch(split, k) ==
    LET smp == BatchSamples(order, LoaderBatch(split), k)
    IN  {[i \in 1..Len(smp) |-> <<smp[i], aug[i]>>] :
            aug \in Augmentations(split, Len(smp))}

Samples(d) == [i \in DOMAIN d |-> d[i][1]]

Exhausted(split) ==
    Len(consumed) >= NumBatches(LoaderSize(split), LoaderBatch(split))

\* ---------------------------------------------------------------- Init
ArgsFor(epochs) ==
    [epochs : epochs, save_freq : 0..MaxSaveFreq,
     log_interval : 0..MaxLogInterval, batch_size : 1..MaxBatch,
     test_batch_size : 1..MaxBatch, no_cuda : BOOLEAN]

Args == ArgsFor(-1..MaxEpochs)

\* Module level, lines 38-63, and main up to the loop, lines 134-138.
Startup ==
    /\ cuda_available \in BOOLEAN
    /\ model_device = device(args, cuda_available)
    /\ epoch = 0
    /\ error = "none"
    /\ lr = LrBase
    /\ training = TRUE
    /\ order = <<>>
    /\ batch_idx = -1
    /\ data = <<>>
    /\ data_device = "none"
    /\ loss = <<>>
    /\ consumed = <<>>
    /\ loss_sum = 0
    /\ correct = 0
    /\ scored = <<>>
    /\ returned = <<>>
    /\ console = <<>>
    /\ writes = <<>>
    /\ visited = <<>>
    /\ updates = <<>>
    /\ runs = <<>>

\* Long runs on datasets of at most one sample, which any batch size
\* delivers as one batch.
Init ==
    /\ args \in {a \in Args : a.batch_size = 1 /\ a.test_batch_size = 1}
    /\ trainset \in {0, 1}
    /\ testset \in {0, 1}
    /\ Startup
    /\ params = 0
    /\ momentum = 0
    /\ grad = {}
    /\ pc = "for_epoch"

\* Short runs on larger datasets, in batches of every size; the options
\* that no pass over the data reads are left at their defaults.
PassInit ==
    /\ args \in {a \in ArgsFor(1..MaxPassEpochs) :
                    ~a.no_cuda /\ a.save_freq = 1}
    /\ trainset \in 1..MaxTrain
    /\ testset \in 1..MaxTest
    /\ Startup
    /\ params = 0
    /\ momentum = 0
    /\ grad = {}
    /\ pc = "for_epoch"

\* An uncaught exception leaves main: the process ends.
Raise(e) ==
    /\ pc' = "Failed"
    /\ error' = e

\* Python's a / b on a zero b raises; the fractions are kept unreduced.
Fraction(a, b) == <<a, b>>

\* ------------------------------------------------ adjust_learning_rate
\* lines 121-131: the rate, in thousandths of args.lr, for an epoch
LearningRate_LateDecay(e) ==
    IF e >= 15 THEN LrBase \div 1000
    ELSE IF e >= 10 THEN LrBase \div 100
    ELSE IF e > 5 THEN LrBase \div 10
    ELSE LrBase
LearningRate(e) ==
    LET lr0 == LrBase
        lr1 == IF e >= 5 THEN LrBase \div 10 ELSE lr0
        lr2 == IF e >= 10 THEN LrBase \div 100 ELSE lr1
        lr3 == IF e >= 15 THEN LrBase \div 1000 ELSE lr2
    IN  lr3

\* ---------------------------------------------------------------- main
\* line 140: whether range(1, n + 1) has a value after e
InRange_Exclusive(e, n) == e + 1 < n
InRange(e, n) == e + 1 <= n

\* line 140: for epoch in range(1, args.epochs + 1)
ForEpoch ==
    /\ pc = "for_epoch"
    /\ IF InRange(epoch, args.epochs)
       THEN /\ epoch' = epoch + 1
            /\ visited' = Append(visited, epoch + 1)
            /\ pc' = "adjust_lr"
       ELSE /\ pc' = "Terminated"
            /\ UNCHANGED <<epoch, visited>>
    /\ UNCHANGED <<config, error, optimizer, params, grad, training, loader,
                   loss, accum, returned, console, writes,
                   updates, runs>>

\* line 142 with lines 121-131
AdjustLearningRate ==
    /\ pc = "adjust_lr"
    /\ lr' = LearningRate(epoch)
    /\ pc' = "train"
    /\ UNCHANGED <<config, epoch, error, momentum, params, grad, training,
                   loader, loss, accum, returned, history>>

\* ---------------------------------------------------------------- train
\* lines 67-68: model.train() and a new iteration of train_loader
TrainBegin ==
    /\ pc = "train"
    /\ training' = TRUE
    /\ order' \in SampleOrders(trainset, TRUE)
    /\ consumed' = <<>>
    /\ updates' = <<>>
    /\ pc' = "train_iter"
    /\ UNCHANGED <<config, epoch, error, optimizer, params, grad, batch_idx,
                   data, data_device, loss, accum, returned, console, writes,
                   visited, runs>>

\* lines 68-69: the next (batch_idx, batch) of enumerate(train_loader),
\* moved to the device
TrainFetch ==
    /\ pc = "train_iter"
    /\ ~Exhausted("train")
    /\ data' \in Fetch("train", Len(consumed))
    /\ batch_idx' = Len(consumed)
    /\ data_device' = device(args, cuda_available)
    /\ consumed' = Append(consumed, Samples(data'))
    /\ pc' = "zero_grad"
    /\ UNCHANGED <<config, epoch, error, optimizer, params, grad, training,
                   order, loss, accum, returned, history>>

\* line 68 when the loader is exhausted: train returns, its locals go
TrainReturn ==
    /\ pc = "train_iter"
    /\ Exhausted("train")
    /\ order' = <<>>
    /\ consumed' = <<>>
    /\ data' = <<>>
    /\ data_device' = "none"
    /\ batch_idx' = -1
    /\ loss' = <<>>
    /\ pc' = "eval_train"
    /\ UNCHANGED <<config, epoch, error, optimizer, params, grad, training,
                   accum, returned, history>>

\* line 70: optimizer.zero_grad()
ZeroGrad_Skip == grad
ZeroGrad == {}

TrainZeroGrad ==
    /\ pc = "zero_grad"
    /\ grad' = ZeroGrad
    /\ pc' = "loss"
    /\ UNCHANGED <<config, epoch, error, optimizer, params, training, loader,
                   loss, accum, returned, history>>

\* line 73: loss = F.cross_entropy(model(data), target), the batch mean
BatchLossSum(d) ==
    SumSeq([i \in DOMAIN d |-> CrossEntropy(params, d[i][1], d[i][2])])

TrainLoss ==
    /\ pc = "loss"
    /\ loss' = Fraction(BatchLossSum(data), Len(data))
    /\ pc' = "backward"
    /\ UNCHANGED <<config, epoch, error, optimizer, params, grad, training,
                   loader, accum, returned, history>>

\* line 75: loss.backward() adds this batch's gradient to .grad
TrainBackward ==
    /\ pc = "backward"
    /\ grad' = grad \cup {<<epoch, batch_idx>>}
    /\ pc' = "step"
    /\ UNCHANGED <<config, epoch, error, optimizer, params, training, loader,
                   loss, accum, returned, history>>

\* line 76: optimizer.step()
TrainStep ==
    /\ pc = "step"
    /\ params' = params + 1
    /\ momentum' = momentum + 1
    /\ updates' = Append(updates, [batch |-> <<epoch, batch_idx>>,
                                    samples |-> Samples(data), used |-> grad])
    /\ pc' = "log"
    /\ UNCHANGED <<config, epoch, error, lr, grad, training, loader, loss,
                   accum, returned, console, writes,
                   visited, runs>>

\* line 79: batch_idx % args.log_interval == 0
ShouldLog_Always(i, interval) == TRUE
ShouldLog(i, interval) == i % interval = 0

\* lines 79-82
TrainLog ==
    /\ pc = "log"
    /\ IF args.log_interval = 0
       THEN /\ Raise("ZeroDivisionError")
            /\ UNCHANGED console
       ELSE /\ console' =
                 IF ShouldLog(batch_idx, args.log_interval)
                 THEN Append(console,
                             [epoch |-> epoch, batch_idx |-> batch_idx,
                              seen |-> batch_idx * Len(data)])
                 ELSE console
            /\ pc' = "train_iter"
            /\ UNCHANGED error
    /\ UNCHANGED <<config, epoch, optimizer, params, grad, training, loader,
                   loss, accum, returned, writes, visited,
                   updates, runs>>

\* ------------------------------------------------ eval_train, eval_test
\* lines 93-94 / 112-113: the samples of a batch whose argmax is the label
BatchCorrect(d) ==
    Cardinality({i \in DOMAIN d : Predict(params, d[i][1], d[i][2]) = Label(d[i][1])})

\* lines 85-89 / 104-108: model.eval(), the accumulators, a new iteration
EvalBegin(split, shuffle, at, next) ==
    /\ pc = at
    /\ training' = FALSE
    /\ loss_sum' = 0
    /\ correct' = 0
    /\ scored' = <<>>
    /\ order' \in SampleOrders(LoaderSize(split), shuffle)
    /\ consumed' = <<>>
    /\ pc' = next
    /\ UNCHANGED <<config, epoch, error, optimizer, params, grad, batch_idx,
                   data, data_device, loss, returned, history>>

\* lines 89-94 / 108-113: one batch under torch.no_grad()
EvalBatch(split, at) ==
    /\ pc = at
    /\ ~Exhausted(split)
    /\ data' \in Fetch(split, Len(consumed))
    /\ data_device' = device(args, cuda_available)
    /\ consumed' = Append(consumed, Samples(data'))
    /\ scored' = scored \o data'
    /\ loss_sum' = loss_sum + BatchLossSum(data')
    /\ correct' = correct + BatchCorrect(data')
    /\ UNCHANGED <<config, pc, epoch, error, optimizer, params, grad,
                   training, order, batch_idx, loss, returned, history>>

\* lines 95-100 / 114-119: the value the evaluator returns
EvalResult_PerBatch(split) ==
    <<Fraction(loss_sum, Len(consumed)), Fraction(correct, Len(consumed))>>
EvalResult(split) ==
    <<Fraction(loss_sum, LoaderSize(split)),
      Fraction(correct, LoaderSize(split))>>

\* The evaluator's locals go when it returns.
EvalLocalsDropped ==
    /\ order' = <<>>
    /\ consumed' = <<>>
    /\ data' = <<>>
    /\ data_device' = "none"
    /\ loss_sum' = 0
    /\ correct' = 0
    /\ scored' = <<>>

\* lines 95 / 114: train_loss /= len(dataset) raises when the length is 0
DivisionRaises_Never(n) == FALSE
DivisionRaises(n) == n = 0

\* lines 95-100 / 114-119: the loop is over; the division raises or the
\* pair is returned
EvalReturn(split, at, next) ==
    /\ pc = at
    /\ Exhausted(split)
    /\ IF DivisionRaises(LoaderSize(split))
       THEN /\ Raise("ZeroDivisionError")
            /\ UNCHANGED returned
       ELSE /\ returned' = EvalResult(split)
            /\ pc' = next
            /\ UNCHANGED error
    /\ EvalLocalsDropped
    /\ UNCHANGED <<config, epoch, optimizer, params, grad, training,
                   batch_idx, loss, history>>

EvalTrainBegin == EvalBegin("train", TRUE, "eval_train", "eval_train_iter")

EvalTrainBatch == EvalBatch("train", "eval_train_iter")

EvalTrainReturn == EvalReturn("train", "eval_train_iter", "eval_train_done")

EvalTestBegin == EvalBegin("test", FALSE, "eval_test", "eval_test_iter")

EvalTestBatch == EvalBatch("test", "eval_test_iter")

EvalTestReturn == EvalReturn("test", "eval_test_iter", "eval_test_done")

\* line 149: main binds the pair to train_loss, train_accuracy, which it
\* never reads, and goes on to line 150
MainEvalTrainDone ==
    /\ pc = "eval_train_done"
    /\ pc' = "eval_test"
    /\ UNCHANGED <<config, epoch, error, optimizer, params, grad, training,
                   loader, loss, accum, returned, history>>

\* line 150: likewise test_loss, test_accuracy; on to line 154
MainEvalTestDone ==
    /\ pc = "eval_test_done"
    /\ pc' = "checkpoint"
    /\ UNCHANGED <<config, epoch, error, optimizer, params, grad, training,
                   loader, loss, accum, returned, history>>

\* ---------------------------------------------------------- checkpoint
\* line 154: epoch % args.save_freq == 0
ShouldSave_Every(e, freq) == TRUE
ShouldSave(e, freq) == e % freq = 0

\* lines 156 and 158: the two file names of an epoch
ModelFile(e) == <<"model-res-epoch", e>>
OptFile(e) == <<"opt-res-checkpoint_epoch", e>>

\* lines 154-158
Checkpoint ==
    /\ pc = "checkpoint"
    /\ IF args.save_freq = 0
       THEN /\ Raise("ZeroDivisionError")
            /\ UNCHANGED writes
       ELSE /\ writes' =
                 IF ShouldSave(epoch, args.save_freq)
                 THEN writes \o <<ModelFile(epoch), OptFile(epoch)>>
                 ELSE writes
            /\ pc' = "for_epoch"
            /\ UNCHANGED error
    /\ UNCHANGED <<config, epoch, optimizer, params, grad, training, loader,
                   loss, accum, returned, console, visited,
                   updates, runs>>

\* ----------------------------------------------------------------- Next
Next ==
    \/ ForEpoch
    \/ AdjustLearningRate
    \/ TrainBegin
    \/ TrainFetch
    \/ TrainReturn
    \/ TrainZeroGrad
    \/ TrainLoss
    \/ TrainBackward
    \/ TrainStep
    \/ TrainLog
    \/ EvalTrainBegin
    \/ EvalTrainBatch
    \/ EvalTrainReturn
    \/ MainEvalTrainDone
    \/ EvalTestBegin
    \/ EvalTestBatch
    \/ EvalTestReturn
    \/ MainEvalTestDone
    \/ Checkpoint

Spec == Init /\ [][Next]_vars

PassSpec == PassInit /\ [][Next]_vars

\* One control thread that runs whenever it can.
FairSpec == Spec /\ WF_vars(Next)

\* ---------------------------------------- the evaluator called twice
\* A driver that calls one evaluator twice in a row on a model that
\* nothing else touches, and keeps what each call saw and returned.  The
\* model is one that some batches of a first epoch have trained.
EvalInit ==
    /\ args \in {a \in ArgsFor({1}) : a.save_freq = 1 /\ a.log_interval = 1}
    /\ trainset \in 1..MaxTrain
    /\ testset \in 1..MaxTest
    /\ Startup
    /\ params \in 0..MaxParams
    /\ momentum = params
    /\ grad = (IF params = 0 THEN {} ELSE {<<1, params - 1>>})
    /\ pc = "call_eval"

ModelState == <<params, lr, momentum, grad>>

CallEval(split) ==
    /\ pc = "call_eval"
    /\ Len(runs) < 2
    /\ runs # <<>> => runs[1].split = split
    /\ runs' = Append(runs, [split |-> split, before |-> ModelState,
                              after |-> <<>>, result |-> <<>>])
    /\ pc' = IF split = "train" THEN "eval_train" ELSE "eval_test"
    /\ UNCHANGED <<config, epoch, error, optimizer, params, grad, training,
                   loader, loss, accum, returned, console, writes, visited,
                   updates>>

CallEvalTrain == CallEval("train")

CallEvalTest == CallEval("test")

EvalDone ==
    /\ pc \in {"eval_train_done", "eval_test_done"}
    /\ runs' = [runs EXCEPT ![Len(runs)].after = ModelState,
                             ![Len(runs)].result = returned]
    /\ pc' = "call_eval"
    /\ UNCHANGED <<config, epoch, error, optimizer, params, grad, training,
                   loader, loss, accum, returned, console, writes, visited,
                   updates>>

EvalNext ==
    \/ CallEvalTrain
    \/ CallEvalTest
    \/ EvalTrainBegin
    \/ EvalTrainBatch
    \/ EvalTrainReturn
    \/ EvalTestBegin
    \/ EvalTestBatch
    \/ EvalTestReturn
    \/ EvalDone

EvalSpec == EvalInit /\ [][EvalNext]_vars

\* ================================================================ claims
TrainPcs == {"train_iter", "zero_grad", "loss", "backward", "step", "log"}
EvalTrainPcs == {"eval_train", "eval_train_iter", "eval_train_done"}
EvalTestPcs == {"eval_test", "eval_test_iter", "eval_test_done"}

\* ----------------------------------------------------------------- C1
\* The step-decay factor of section 4.1, in thousandths.
StepDecay(e) ==
    CASE e < 5 -> 1000
      [] 5 <= e /\ e < 10 -> 100
      [] 10 <= e /\ e < 15 -> 10
      [] e >= 15 -> 1

\* C1: once adjust_learning_rate(optimizer, e) has run for epoch e >= 1, and
\* until it runs for the next epoch, the optimizer's learning rate is
\* args.lr times the step-decay factor of e (1, 1/10, 1/100, 1/1000 with
\* the changes exactly at epochs 5, 10 and 15), whatever the rate was
\* before the call.
C1_StepDecay ==
    (epoch >= 1 /\ pc # "adjust_lr") => lr * 1000 = LrBase * StepDecay(epoch)

C1_Witness ==
    /\ pc = "train"
    /\ epoch = 15
    /\ lr * 1000 = LrBase

\* ----------------------------------------------------------------- C2
Multiples(f, n) == {e \in 1..n : e % f = 0}

\* C2: with E_max >= 0 and f >= 1, a run that has terminated normally has
\* written exactly floor(E_max / f) checkpoint pairs: the model file and
\* the optimizer file of every epoch e <= E_max with e mod f = 0, no
\* other file, and no file twice.
C2_CheckpointPairs ==
    (pc = "Terminated" /\ args.epochs >= 0 /\ args.save_freq >= 1) =>
        /\ Len(writes) = 2 * (args.epochs \div args.save_freq)
        /\ Range(writes) =
               {ModelFile(e) : e \in Multiples(args.save_freq, args.epochs)}
               \cup {OptFile(e) : e \in Multiples(args.save_freq, args.epochs)}
        /\ \A i, j \in DOMAIN writes : writes[i] = writes[j] => i = j
        /\ (args.save_freq > args.epochs => writes = <<>>)

C2_Witness ==
    /\ pc = "Terminated"
    /\ args.epochs = 5
    /\ args.save_freq = 2
    /\ writes = <<ModelFile(2), OptFile(2), ModelFile(4), OptFile(4)>>

\* ----------------------------------------------------------------- C3
\* The states of section 4.6.
Phase ==
    CASE pc = "for_epoch" -> "Advancing"
      [] pc = "adjust_lr" -> "Scheduling"
      [] pc \in TrainPcs \cup {"train"} -> "Training"
      [] pc \in EvalTrainPcs -> "EvaluatingTrain"
      [] pc \in EvalTestPcs -> "EvaluatingTest"
      [] pc = "checkpoint" -> "Checkpointing"
      [] OTHER -> pc

PhaseOrder ==
    {<<"Advancing", "Scheduling">>, <<"Scheduling", "Training">>,
     <<"Training", "EvaluatingTrain">>,
     <<"EvaluatingTrain", "EvaluatingTest">>,
     <<"EvaluatingTest", "Checkpointing">>, <<"Checkpointing", "Advancing">>,
     <<"Advancing", "Terminated">>}

PhaseStep ==
    \/ Phase' = Phase /\ epoch' = epoch
    \/ Phase' = "Failed" /\ epoch' = epoch
    \/ /\ <<Phase, Phase'>> \in PhaseOrder
       /\ epoch' = IF Phase' = "Scheduling" THEN epoch + 1 ELSE epoch
       /\ Phase' = "Training" => pc' = "train"

EpochsInOrder ==
    /\ visited = [i \in 1..epoch |-> i]
    /\ pc = "Terminated" => Len(visited) = Cardinality(1..args.epochs)

\* C3: the loop enters the epochs 1, 2, ..., E_max in increasing order, each
\* once; within an epoch the phases follow one another as Scheduling,
\* Training (entered once), EvaluatingTrain, EvaluatingTest,
\* Checkpointing, and the next epoch starts only after Checkpointing;
\* unless a step fails the loop reaches Terminated, and has then entered
\* exactly the epochs 1..E_max.
C3_EpochLoop ==
    /\ [][PhaseStep]_vars
    /\ []EpochsInOrder
    /\ <>(pc = "Terminated" \/ pc = "Failed")

C3_Witness ==
    /\ pc = "Terminated"
    /\ args.epochs = 3
    /\ visited = <<1, 2, 3>>
    /\ writes # <<>>

\* ----------------------------------------------------------------- C5
\* The progress records train has printed for batch i of epoch e.
Records(e, i) ==
    {k \in DOMAIN console : console[k].epoch = e /\ console[k].batch_idx = i}

\* Batch i of epoch e has been through line 79.
LogStepDone(e, i) ==
    \/ e < epoch
    \/ /\ e = epoch
       /\ pc = "train_iter"
       /\ i < Len(consumed)
    \/ /\ e = epoch
       /\ pc \in TrainPcs \ {"train_iter"}
       /\ i < Len(consumed) - 1
    \/ /\ e = epoch
       /\ pc \notin TrainPcs \cup {"adjust_lr", "train"}

\* C5: with a log interval L >= 1, train has printed exactly one progress
\* record for every batch index that has been through its log step and is
\* a multiple of L (batch 0 among them), and none for any other index.
C5_ProgressLog ==
    args.log_interval >= 1 =>
        \A e \in 1..args.epochs :
            \A i \in 0..(NumBatches(trainset, args.batch_size) - 1) :
                Cardinality(Records(e, i)) =
                    IF LogStepDone(e, i) /\ i % args.log_interval = 0
                    THEN 1 ELSE 0

C5_Witness ==
    /\ args.log_interval = 2
    /\ pc = "train_iter"
    /\ Len(consumed) = 2
    /\ Cardinality(Records(epoch, 0)) = 1
    /\ Records(epoch, 1) = {}

\* ----------------------------------------------------------------- C6
\* The evaluator of a split has been through all its batches.
EvalLoopOver(split) ==
    /\ pc = (IF split = "train" THEN "eval_train_iter" ELSE "eval_test_iter")
    /\ Exhausted(split)

Hits(sc) == {i \in DOMAIN sc : Predict(params, sc[i][1], sc[i][2]) = Label(sc[i][1])}

\* C6: when the evaluator has been through a non-empty split of N samples,
\* in whatever batches, it has scored every sample exactly once, and the
\* pair it returns is (sum of the per-sample losses) / N and (number of
\* samples whose argmax is the label) / N: the accuracy lies in [0, 1] and
\* is N / N when every sample is classified correctly.
C6_Metrics ==
    \A split \in {"train", "test"} :
        (EvalLoopOver(split) /\ LoaderSize(split) > 0) =>
            LET n == LoaderSize(split)
                result == EvalResult(split)
            IN  /\ Len(scored) = n
                /\ {scored[i][1] : i \in DOMAIN scored} = 1..n
                /\ Samples(scored) = order
                /\ result[1] = Fraction(
                       SumSeq([i \in DOMAIN scored |->
                                  CrossEntropy(params, scored[i][1], scored[i][2])]), n)
                /\ result[2] = Fraction(Cardinality(Hits(scored)), n)
                /\ 0 <= result[2][1] /\ result[2][1] <= result[2][2]
                /\ Hits(scored) = DOMAIN scored => result[2][1] = result[2][2]

C6_Witness ==
    /\ EvalLoopOver("test")
    /\ testset = 3
    /\ args.test_batch_size = 2
    /\ consumed = <<<<1, 2>>, <<3>>>>
    /\ EvalResult("test")[2] = Fraction(Cardinality(Hits(scored)), 3)

\* ----------------------------------------------------------------- C9
EmptyEvalRaises ==
    \A split \in {"train", "test"} :
        (EvalLoopOver(split) /\ LoaderSize(split) = 0) =>
            /\ pc' = "Failed"
            /\ error' = "ZeroDivisionError"
            /\ returned' = returned
            /\ writes' = writes

\* C9: an evaluator that has been through a split of zero samples raises
\* (ZeroDivisionError) instead of returning a pair; the exception leaves
\* main, nothing runs after it, and a run on an empty split writes no
\* checkpoint, in that epoch or later.
C9_EmptySplit ==
    /\ [][EmptyEvalRaises /\ pc # "Failed"]_vars
    /\ []((trainset = 0 \/ testset = 0) => (writes = <<>> /\ pc # "checkpoint"))

C9_Witness ==
    /\ pc = "Failed"
    /\ error = "ZeroDivisionError"
    /\ testset = 0
    /\ trainset > 0
    /\ args.log_interval >= 1
    /\ params > 0
    /\ writes = <<>>

\* ---------------------------------------------------------------- C10
LossOf(d) == Fraction(BatchLossSum(d), Len(d))

\* The loss is computed before the gradients, the gradients before the
\* update, and the update uses the gradients of its own batch alone.
BatchStepOrder ==
    /\ grad' # grad =>
           \/ pc = "zero_grad" /\ grad' = {}
           \/ /\ pc = "backward"
              /\ loss = LossOf(data)
              /\ grad = {}
              /\ grad' = {<<epoch, batch_idx>>}
    /\ params' # params =>
           /\ pc = "step"
           /\ grad = {<<epoch, batch_idx>>}
           /\ params' = params + 1

TrainPass ==
    /\ \A k \in DOMAIN updates : updates[k].used = {updates[k].batch}
    /\ pc \in TrainPcs =>
           /\ \A k \in DOMAIN updates :
                  /\ updates[k].batch = <<epoch, k - 1>>
                  /\ updates[k].samples =
                         BatchSamples(order, args.batch_size, k - 1)
           /\ Flatten(consumed) = SubSeq(order, 1, Len(Flatten(consumed)))
           /\ Len(updates) = Len(consumed) - (IF pc \in {"train_iter", "log"} THEN 0 ELSE 1)
    /\ (pc = "train_iter" /\ Exhausted("train")) =>
           /\ Flatten(consumed) = order
           /\ Range(order) = 1..trainset
           /\ Len(updates) = NumBatches(trainset, args.batch_size)

\* C10: one train call goes once through the training data: the batches
\* are processed in the order the loader supplies them, none skipped, each
\* with exactly one parameter update (B batches, B updates); in a batch
\* the loss is computed, then the gradients, then the update, and the
\* gradients are cleared between one update and the next gradient
\* computation, so that every update uses the gradients of its own batch.
C10_TrainPass ==
    /\ [][BatchStepOrder]_vars
    /\ []TrainPass

C10_Witness ==
    /\ pc = "train_iter"
    /\ Exhausted("train")
    /\ order = <<2, 1>>
    /\ args.batch_size = 1
    /\ Len(updates) = 2
    /\ updates[2].used = {<<epoch, 1>>}

\* ----------------------------------------------------------------- C4
\* C4 (as claimed): a call of eval_train or eval_test leaves the model
\* parameters and the optimizer state as they were, and two calls in a
\* row of the same evaluator on the untouched model return the same
\* (loss, accuracy) pair.
C4_EvalDeterministic ==
    /\ \A i \in DOMAIN runs :
           runs[i].after # <<>> => runs[i].after = runs[i].before
    /\ (Len(runs) = 2 /\ runs[2].after # <<>>) =>
           runs[1].result = runs[2].result

\* The part of C4 the code keeps: the frame, and eval_test's determinism.
C4_FrameAndTestDeterministic ==
    /\ \A i \in DOMAIN runs :
           runs[i].after # <<>> => runs[i].after = runs[i].before
    /\ (Len(runs) = 2 /\ runs[2].after # <<>> /\ runs[1].split = "test") =>
           runs[1].result = runs[2].result

C4_Witness ==
    /\ Len(runs) = 2
    /\ runs[1].split = "train"
    /\ runs[2].after = runs[2].before
    /\ runs[1].result # runs[2].result

\* ----------------------------------------------------------------- C7
\* The values the claim calls invalid: a negative epoch count, and an
\* interval or frequency that cannot be a divisor.
InvalidArgs ==
    \/ args.epochs < 0
    \/ args.log_interval < 1
    \/ args.save_freq < 1

\* C7 (as claimed): a run started with an invalid value ends in an error
\* before any training step, evaluation pass or checkpoint write, and
\* never terminates normally.
C7_ValidatedAtStartup ==
    InvalidArgs =>
        /\ pc \in {"for_epoch", "Failed"}
        /\ epoch = 0
        /\ params = 0
        /\ returned = <<>>
        /\ writes = <<>>

\* ----------------------------------------------------------------- C8
\* CUDA is requested (no --no-cuda) and the machine has none.
RequestedDeviceAbsent == ~args.no_cuda /\ ~cuda_available

\* C8 (as claimed): the command line has no option that permits a
\* fallback, so a run whose requested device is absent is fatal and no
\* training takes place on the other device.
C8_FatalWithoutPermission ==
    RequestedDeviceAbsent =>
        /\ data_device # "cpu"
        /\ params = 0

\* C8 (amended): when CUDA is requested but absent the run falls back to
\* the CPU without any option permitting it: the model and every batch are
\* on the CPU, and the run never fails for want of the device; the model
\* is on CUDA exactly when --no-cuda is not given and CUDA is available.
C8_SilentFallback ==
    /\ model_device = "cuda" <=> (~args.no_cuda /\ cuda_available)
    /\ data_device \in {"none", model_device}
    /\ RequestedDeviceAbsent =>
           /\ model_device = "cpu"
           /\ pc = "Failed" => error = "ZeroDivisionError"

C8_Witness ==
    /\ RequestedDeviceAbsent
    /\ pc = "step"
    /\ data_device = "cpu"
    /\ model_device = "cpu"

====
